---- MODULE Spec2Model ----
(***************************************************************************)
(* Reliable ordered channel of renet (src/channel/reliable.rs).            *)
(*                                                                         *)
(* Two channel instances are modelled: "snd", on which the application     *)
(* calls send_message and the transport calls get_messages_to_send and     *)
(* process_ack, and "rcv", its peer, on which the transport calls          *)
(* process_messages and the application calls receive_message.  Between    *)
(* them is an unreliable transport: every packet ever produced stays in    *)
(* `net` and may be handed to the peer any number of times, in any order,  *)
(* or never; an acknowledgement may reach the sender once the peer has     *)
(* seen the packet, any number of times, or never.                         *)
(***************************************************************************)
EXTENDS Integers, Sequences, FiniteSets, TLC

\* ---------------------------------------------------------------- bounds
MaxSends == 3        \* send_message calls in one behaviour
MaxPackets == 2      \* packets built by get_messages_to_send in one behaviour
MaxTime == 1         \* the logical clock ranges over 0..MaxTime
MaxId == 2           \* an arbitrary transport delivers message ids 0..MaxId

\* ------------------------------------------------------- integer widths
U16 == 65536                 \* ids and packet sequences are u16: values 0 .. U16 - 1

\* A u32 is kept as two 16-bit limbs [hi, lo], its value hi * 65536 + lo.
U32(n) == [ hi |-> (n \div U16) % U16, lo |-> n % U16 ]
U32Max == [ hi |-> U16 - 1, lo |-> U16 - 1 ]
U32Le(a, b) == a.hi < b.hi \/ (a.hi = b.hi /\ a.lo <= b.lo)
U32Min(a, b) == IF U32Le(a, b) THEN a ELSE b
\* a - b for b <= a.
U32Sub(a, b) ==
    IF a.lo >= b.lo
    THEN [ hi |-> a.hi - b.hi, lo |-> a.lo - b.lo ]
    ELSE [ hi |-> a.hi - b.hi - 1, lo |-> a.lo + U16 - b.lo ]
\* a * 8 in 32 bits.
U32Mul8(a) ==
    [ hi |-> (a.hi * 8 + (a.lo * 8) \div U16) % U16, lo |-> (a.lo * 8) % U16 ]

\* Does a * 8 exceed 32 bits.
U32Mul8Overflows(a) == a.hi * 8 >= U16

\* Option<T>: None is the empty tuple, Some(x) the one-element tuple.
None == << >>
Some(x) == << x >>
IsSome(o) == o # None
Unwrap(o) == o[1]

\* ------------------------------------------------ inputs of the behaviours
\* The payloads the n-th send_message call chooses from: one of 1 byte and one
\* of 2 bytes, with bytes that tell the calls apart.
Payloads(n) == { << n >>, << n, n >> }

\* The available_bits argument of get_messages_to_send.
AvailChoices == { None, Some(0), Some(96) }

\* Configurations the channels are constructed with.
\*   CfgSmall : queues of 2, two messages per packet, no packet budget,
\*              resend after 2 ticks.
\*   CfgBudget: queues of 3, one message per packet, a packet budget of 11
\*              bytes (88 bits) that fits the 1-byte payload only, resend
\*              after 1 tick.
CfgSmall ==
    [ sent_packet_buffer_size |-> 2,
      message_send_queue_size |-> 2,
      message_receive_queue_size |-> 2,
      max_message_per_packet |-> 2,
      packet_budget_bytes |-> None,
      message_resend_time |-> 2 ]
CfgBudget ==
    [ sent_packet_buffer_size |-> 4,
      message_send_queue_size |-> 3,
      message_receive_queue_size |-> 3,
      max_message_per_packet |-> 1,
      packet_budget_bytes |-> Some(11),
      message_resend_time |-> 1 ]
Configs == { CfgSmall, CfgBudget }

\*   CfgSkip  : room for one packet record, queues of 3, two messages per
\*              packet, no packet budget, resend after 1 tick.
CfgSkip ==
    [ sent_packet_buffer_size |-> 1,
      message_send_queue_size |-> 3,
      message_receive_queue_size |-> 3,
      max_message_per_packet |-> 2,
      packet_budget_bytes |-> None,
      message_resend_time |-> 1 ]
\* The configurations of the sender taken alone, and the available_bits its
\* get_messages_to_send is called with: 176 bits fit two 1-byte payloads.
\*   CfgOne   : queues of 3, two messages per packet, a packet budget of 11
\*              bytes: exactly the size of one message with a 1-byte payload.
CfgOne ==
    [ sent_packet_buffer_size |-> 2,
      message_send_queue_size |-> 3,
      message_receive_queue_size |-> 3,
      max_message_per_packet |-> 2,
      packet_budget_bytes |-> Some(11),
      message_resend_time |-> 2 ]
ConfigsSnd == { CfgSmall, CfgBudget, CfgSkip, CfgOne }

\*   CfgHuge  : CfgSmall with a packet budget of 2^29 + 11 bytes, whose size
\*              in bits does not fit in 32 bits (it wraps to 88 bits).
CfgHuge ==
    [ sent_packet_buffer_size |-> 2,
      message_send_queue_size |-> 2,
      message_receive_queue_size |-> 2,
      max_message_per_packet |-> 2,
      packet_budget_bytes |-> Some(536870923),
      message_resend_time |-> 2 ]
\* The configurations of the behaviours in which integers overflow.
ConfigsWrap == { CfgSmall, CfgBudget, CfgHuge }
AvailChoicesSnd == AvailChoices \cup { Some(176) }

\* ------------------------------------------------------- SequenceBuffer<T>
\* A buffer is [sequence, slots]; slots[i] is None or Some([id, value]).
SBWithCapacity(size) ==
    [ sequence |-> 0, slots |-> [ i \in 0 .. size - 1 |-> None ] ]

SBLen(buf) == Cardinality(DOMAIN buf.slots)

SBIndex(buf, id) == id % SBLen(buf)

SBExists(buf, id) ==
    LET slot == buf.slots[SBIndex(buf, id)]
    IN  IsSome(slot) /\ Unwrap(slot).id = id

SBGet(buf, id) ==
    IF SBExists(buf, id) THEN Some(Unwrap(buf.slots[SBIndex(buf, id)]).value)
    ELSE None

SBInsert(buf, id, value) ==
    [ sequence |-> (id + 1) % U16,
      slots |-> [ buf.slots EXCEPT ![SBIndex(buf, id)] =
                      Some([ id |-> id, value |-> value ]) ] ]

\* get_mut(id) followed by an assignment through the reference.
SBSet(buf, id, value) ==
    IF SBExists(buf, id)
    THEN [ buf EXCEPT !.slots[SBIndex(buf, id)] =
               Some([ id |-> id, value |-> value ]) ]
    ELSE buf

SBRemove(buf, id) ==
    IF SBExists(buf, id)
    THEN [ buf EXCEPT !.slots[SBIndex(buf, id)] = None ]
    ELSE buf

SBSequence(buf) == buf.sequence

\* The ids that have an entry in the buffer.
SBIds(buf) ==
    { Unwrap(buf.slots[i]).id : i \in { j \in DOMAIN buf.slots : IsSome(buf.slots[j]) } }

\* ------------------------------------------- Message, MessageSend, PacketSent
Message(id, payload) == [ id |-> id, payload |-> payload ]

\* bincode size of a Message, in bits: u16 id, u64 length prefix, the bytes.
SerializedSizeBits(message) == 8 * (2 + 8 + Len(message.payload))

MessageSend(message) ==
    [ message |-> message,
      last_time_sent |-> None,
      serialized_size_bits |-> SerializedSizeBits(message) ]

PacketSent(messages_id) == [ messages_id |-> messages_id, acked |-> FALSE ]

\* ------------------------------------------------- ReliableOrderedChannel
new(current_time, config) ==
    [ config |-> config,
      packets_sent |-> SBWithCapacity(config.sent_packet_buffer_size),
      messages_send |-> SBWithCapacity(config.message_send_queue_size),
      messages_received |-> SBWithCapacity(config.message_receive_queue_size),
      send_message_id |-> 0,
      received_message_id |-> 0,
      num_messages_sent |-> 0,
      num_messages_received |-> 0,
      oldest_unacked_message_id |-> 0,
      current_time |-> current_time ]

has_messages_to_send(c) == c.oldest_unacked_message_id # c.send_message_id

Min(a, b) == IF a <= b THEN a ELSE b

\* The budget with the configured packet budget left out.
EffectiveBudget_NoPacketBudget(c, available_bits) ==
    IF IsSome(available_bits) THEN U32(Unwrap(available_bits)) ELSE U32Max

\* reliable.rs 74-80: the budget, in bits, of one get_messages_id_to_send call.
EffectiveBudget(c, available_bits) ==
    LET avail == IF IsSome(available_bits) THEN U32(Unwrap(available_bits)) ELSE U32Max
    IN  IF IsSome(c.config.packet_budget_bytes)
        THEN U32Min(U32Mul8(U32(Unwrap(c.config.packet_budget_bytes))), avail)
        ELSE avail

message_limit(c) ==
    Min(c.config.message_send_queue_size, c.config.message_receive_queue_size)

\* The resend test with the resend time left out of the deadline.
ShouldSend_NoResendTime(c, message_send) ==
    IF IsSome(message_send.last_time_sent)
    THEN Unwrap(message_send.last_time_sent) <= c.current_time
    ELSE TRUE

\* The resend test with a strict comparison.
ShouldSend_Strict(c, message_send) ==
    IF IsSome(message_send.last_time_sent)
    THEN Unwrap(message_send.last_time_sent) + c.config.message_resend_time
             < c.current_time
    ELSE TRUE

\* reliable.rs 96-100: is the entry due for (re)sending at the current time.
ShouldSend(c, message_send) ==
    IF IsSome(message_send.last_time_sent)
    THEN Unwrap(message_send.last_time_sent) + c.config.message_resend_time
             <= c.current_time
    ELSE TRUE

\* The scan ending at the first due entry that does not fit the budget.
RECURSIVE ScanFrom_StopOnOversize(_, _, _, _, _)
ScanFrom_StopOnOversize(c, i, num_messages, messages_id, available_bits) ==
    IF i >= message_limit(c) \/ num_messages = c.config.max_message_per_packet
    THEN messages_id
    ELSE LET message_id == (c.oldest_unacked_message_id + (i % U16)) % U16
             entry == SBGet(c.messages_send, message_id)
             due == IsSome(entry) /\ ShouldSend(c, Unwrap(entry))
             fits == U32Le(U32(Unwrap(entry).serialized_size_bits), available_bits)
         IN  IF due /\ fits
             THEN ScanFrom_StopOnOversize(c, i + 1, num_messages + 1,
                           Append(messages_id, message_id),
                           U32Sub(available_bits,
                                  U32(Unwrap(entry).serialized_size_bits)))
             ELSE IF due
             THEN messages_id
             ELSE ScanFrom_StopOnOversize(c, i + 1, num_messages, messages_id,
                                          available_bits)

\* The scan without the max_message_per_packet test.
RECURSIVE ScanFrom_NoCap(_, _, _, _, _)
ScanFrom_NoCap(c, i, num_messages, messages_id, available_bits) ==
    IF i >= message_limit(c)
    THEN messages_id
    ELSE LET message_id == (c.oldest_unacked_message_id + (i % U16)) % U16
             entry == SBGet(c.messages_send, message_id)
             take == /\ IsSome(entry)
                     /\ ShouldSend(c, Unwrap(entry))
                     /\ U32Le(U32(Unwrap(entry).serialized_size_bits), available_bits)
         IN  IF take
             THEN ScanFrom_NoCap(c, i + 1, num_messages + 1,
                                 Append(messages_id, message_id),
                                 U32Sub(available_bits,
                                        U32(Unwrap(entry).serialized_size_bits)))
             ELSE ScanFrom_NoCap(c, i + 1, num_messages, messages_id, available_bits)

\* reliable.rs 89-108: the scan, from offset i, with the loop's locals.
RECURSIVE ScanFrom(_, _, _, _, _)
ScanFrom(c, i, num_messages, messages_id, available_bits) ==
    IF i >= message_limit(c) \/ num_messages = c.config.max_message_per_packet
    THEN messages_id
    ELSE LET message_id == (c.oldest_unacked_message_id + (i % U16)) % U16
             entry == SBGet(c.messages_send, message_id)
             take == /\ IsSome(entry)
                     /\ ShouldSend(c, Unwrap(entry))
                     /\ U32Le(U32(Unwrap(entry).serialized_size_bits), available_bits)
         IN  IF take
             THEN ScanFrom(c, i + 1, num_messages + 1,
                           Append(messages_id, message_id),
                           U32Sub(available_bits,
                                  U32(Unwrap(entry).serialized_size_bits)))
             ELSE ScanFrom(c, i + 1, num_messages, messages_id, available_bits)

\* reliable.rs 93: `self.oldest_unacked_message_id + i as u16` is a plain u16
\* addition.  Built without overflow checks it wraps (ScanFrom); built with
\* them (the debug profile) it panics.  ScanPanics: the scan from offset i
\* reaches an iteration whose sum does not fit in 16 bits.
RECURSIVE ScanPanics(_, _, _, _)
ScanPanics(c, i, num_messages, available_bits) ==
    IF i >= message_limit(c) \/ num_messages = c.config.max_message_per_packet
    THEN FALSE
    ELSE IF c.oldest_unacked_message_id + (i % U16) >= U16
    THEN TRUE
    ELSE LET message_id == c.oldest_unacked_message_id + (i % U16)
             entry == SBGet(c.messages_send, message_id)
             take == /\ IsSome(entry)
                     /\ ShouldSend(c, Unwrap(entry))
                     /\ U32Le(U32(Unwrap(entry).serialized_size_bits), available_bits)
         IN  IF take
             THEN ScanPanics(c, i + 1, num_messages + 1,
                             U32Sub(available_bits,
                                    U32(Unwrap(entry).serialized_size_bits)))
             ELSE ScanPanics(c, i + 1, num_messages, available_bits)

\* reliable.rs 77: `packet_budget * 8` is a plain u32 multiplication: it wraps
\* in a build without overflow checks (U32Mul8) and panics in a build with
\* them when packet_budget_bytes is 2^29 or more.
EffectiveBudgetPanics(c) ==
    /\ IsSome(c.config.packet_budget_bytes)
    /\ U32Mul8Overflows(U32(Unwrap(c.config.packet_budget_bytes)))

\* Does get_messages_id_to_send panic when built with overflow checks: not
\* when nothing is pending (line 69 returns first), else at the budget or in
\* the scan.
get_messages_id_to_send_panics(c, available_bits) ==
    /\ has_messages_to_send(c)
    /\ \/ EffectiveBudgetPanics(c)
       \/ ScanPanics(c, 0, 0, EffectiveBudget(c, available_bits))

get_messages_id_to_send(c, available_bits) ==
    IF ~has_messages_to_send(c) THEN None
    ELSE LET messages_id == ScanFrom(c, 0, 0, << >>, EffectiveBudget(c, available_bits))
         IN  IF messages_id # << >> THEN Some(messages_id) ELSE None

add_messages_packet_entry(c, messages_id, sequence) ==
    [ c EXCEPT !.packets_sent = SBInsert(@, sequence, PacketSent(messages_id)) ]

\* The cursor advance without the test that the id has no entry.
update_oldest_message_ack_NoExists(c) ==
    [ c EXCEPT !.oldest_unacked_message_id = SBSequence(c.messages_send) ]

RECURSIVE update_oldest_message_ack(_)
update_oldest_message_ack(c) ==
    LET stop_id == SBSequence(c.messages_send)
    IN  IF /\ c.oldest_unacked_message_id # stop_id
           /\ ~SBExists(c.messages_send, c.oldest_unacked_message_id)
        THEN update_oldest_message_ack(
                 [ c EXCEPT !.oldest_unacked_message_id = (@ + 1) % U16 ])
        ELSE c

\* reliable.rs 127: `self.oldest_unacked_message_id += 1` is a plain u16
\* addition too: with overflow checks the loop panics when it has to step
\* past 65535.
RECURSIVE update_oldest_message_ack_panics(_)
update_oldest_message_ack_panics(c) ==
    LET stop_id == SBSequence(c.messages_send)
    IN  IF /\ c.oldest_unacked_message_id # stop_id
           /\ ~SBExists(c.messages_send, c.oldest_unacked_message_id)
        THEN IF c.oldest_unacked_message_id = U16 - 1
             THEN TRUE
             ELSE update_oldest_message_ack_panics(
                      [ c EXCEPT !.oldest_unacked_message_id = @ + 1 ])
        ELSE FALSE

update_current_time(c, time) == [ c EXCEPT !.current_time = time ]

\* The stamping left out: no entry's last_time_sent is written.
StampAll_Skip(c, messages_id, k) == c

\* reliable.rs 143-150: stamp each selected entry and clone its message.
RECURSIVE StampAll(_, _, _)
StampAll(c, messages_id, k) ==
    IF k > Len(messages_id) THEN c
    ELSE LET entry == Unwrap(SBGet(c.messages_send, messages_id[k]))
             stamped == [ entry EXCEPT !.last_time_sent = Some(c.current_time) ]
         IN  StampAll([ c EXCEPT !.messages_send = SBSet(@, messages_id[k], stamped) ],
                      messages_id, k + 1)

\* get_messages_to_send: [chan: the channel after the call, out: its result].
get_messages_to_send(c, available_bits, sequence) ==
    LET ids == get_messages_id_to_send(c, available_bits)
    IN  IF IsSome(ids)
        THEN LET messages_id == Unwrap(ids)
                 messages == [ k \in 1 .. Len(messages_id) |->
                                 Unwrap(SBGet(c.messages_send, messages_id[k])).message ]
             IN  [ chan |-> add_messages_packet_entry(StampAll(c, messages_id, 1),
                                                      messages_id, sequence),
                   out |-> Some(messages) ]
        ELSE [ chan |-> c, out |-> None ]

\* process_messages without the test that the id has no entry yet.
RECURSIVE process_messages_from_NoExists(_, _, _)
process_messages_from_NoExists(c, messages, k) ==
    IF k > Len(messages) THEN c
    ELSE process_messages_from_NoExists(
             [ c EXCEPT !.messages_received = SBInsert(@, messages[k].id, messages[k]) ],
             messages, k + 1)

RECURSIVE process_messages_from(_, _, _)
process_messages_from(c, messages, k) ==
    IF k > Len(messages) THEN c
    ELSE LET message == messages[k]
         IN  process_messages_from(
                 IF ~SBExists(c.messages_received, message.id)
                 THEN [ c EXCEPT !.messages_received = SBInsert(@, message.id, message) ]
                 ELSE c,
                 messages, k + 1)

process_messages(c, messages) == process_messages_from(c, messages, 1)

\* The removal left out: the acknowledged messages stay staged.
RemoveAll_Skip(buf, messages_id, k) == buf

\* reliable.rs 174-178: remove the listed ids that are still staged.
RECURSIVE RemoveAll(_, _, _)
RemoveAll(buf, messages_id, k) ==
    IF k > Len(messages_id) THEN buf
    ELSE RemoveAll(SBRemove(buf, messages_id[k]), messages_id, k + 1)

\* process_ack without the acked flag, moving the cursor by one per call.
process_ack_NoAckedFlag(c, ack) ==
    LET sent_packet == SBGet(c.packets_sent, ack)
    IN  IF IsSome(sent_packet)
        THEN [ c EXCEPT
                 !.messages_send = RemoveAll(@, Unwrap(sent_packet).messages_id, 1),
                 !.oldest_unacked_message_id =
                     IF @ # c.send_message_id THEN (@ + 1) % U16 ELSE @ ]
        ELSE c

\* process_ack that takes whatever record occupies the slot of the sequence,
\* without comparing its sequence.
process_ack_AnySlot(c, ack) ==
    LET index == SBIndex(c.packets_sent, ack)
        slot == c.packets_sent.slots[index]
    IN  IF IsSome(slot) /\ ~Unwrap(slot).value.acked
        THEN update_oldest_message_ack(
                 [ c EXCEPT
                     !.packets_sent.slots[index] =
                         Some([ Unwrap(slot) EXCEPT !.value.acked = TRUE ]),
                     !.messages_send =
                         RemoveAll(@, Unwrap(slot).value.messages_id, 1) ])
        ELSE c

process_ack(c, ack) ==
    LET sent_packet == SBGet(c.packets_sent, ack)
    IN  IF IsSome(sent_packet) /\ ~Unwrap(sent_packet).acked
        THEN update_oldest_message_ack(
                 [ c EXCEPT
                     !.packets_sent =
                         SBSet(@, ack, [ Unwrap(sent_packet) EXCEPT !.acked = TRUE ]),
                     !.messages_send =
                         RemoveAll(@, Unwrap(sent_packet).messages_id, 1) ])
        ELSE c

\* Does process_ack panic when built with overflow checks.
process_ack_panics(c, ack) ==
    LET sent_packet == SBGet(c.packets_sent, ack)
    IN  /\ IsSome(sent_packet)
        /\ ~Unwrap(sent_packet).acked
        /\ update_oldest_message_ack_panics(
               [ c EXCEPT !.messages_send =
                              RemoveAll(@, Unwrap(sent_packet).messages_id, 1) ])

\* send_message that forgets to count the message.
send_message_NoCount(c, message_payload) ==
    LET message_id == c.send_message_id
    IN  [ c EXCEPT
            !.send_message_id = (@ + 1) % U16,
            !.messages_send =
                SBInsert(@, message_id, MessageSend(Message(message_id, message_payload))) ]

send_message(c, message_payload) ==
    LET message_id == c.send_message_id
    IN  [ c EXCEPT
            !.send_message_id = (@ + 1) % U16,
            !.messages_send =
                SBInsert(@, message_id, MessageSend(Message(message_id, message_payload))),
            !.num_messages_sent = @ + 1 ]

\* receive_message that forgets to advance received_message_id.
receive_message_NoAdvance(c) ==
    LET received_message_id == c.received_message_id
    IN  IF ~SBExists(c.messages_received, received_message_id)
        THEN [ chan |-> c, out |-> None ]
        ELSE [ chan |-> [ c EXCEPT
                            !.num_messages_received = @ + 1,
                            !.messages_received = SBRemove(@, received_message_id) ],
               out |-> Some(Unwrap(SBGet(c.messages_received,
                                         received_message_id)).payload) ]

\* receive_message that takes whatever entry occupies the slot of
\* received_message_id, without comparing its id.
receive_message_AnySlot(c) ==
    LET index == SBIndex(c.messages_received, c.received_message_id)
        slot == c.messages_received.slots[index]
    IN  IF slot = None
        THEN [ chan |-> c, out |-> None ]
        ELSE [ chan |-> [ c EXCEPT
                            !.received_message_id = (@ + 1) % U16,
                            !.num_messages_received = @ + 1,
                            !.messages_received.slots[index] = None ],
               out |-> Some(Unwrap(slot).value.payload) ]

\* receive_message: [chan: the channel after the call, out: its result].
receive_message(c) ==
    LET received_message_id == c.received_message_id
    IN  IF ~SBExists(c.messages_received, received_message_id)
        THEN [ chan |-> c, out |-> None ]
        ELSE [ chan |-> [ c EXCEPT
                            !.received_message_id = (@ + 1) % U16,
                            !.num_messages_received = @ + 1,
                            !.messages_received = SBRemove(@, received_message_id) ],
               out |-> Some(Unwrap(SBGet(c.messages_received,
                                         received_message_id)).payload) ]

\* reliable.rs 211: `fn reset(&mut self) {}`.
reset(c) == c

\* ------------------------------------------------------------ the system
VARIABLES
    snd,        \* the sending channel
    rcv,        \* its peer, the receiving channel
    net,        \* the packets built so far: [sequence, messages]
    acks,       \* the packet sequences the peer has been handed
    next_seq,   \* the transport's next packet sequence
    sent,       \* the payloads passed to send_message, in call order
    delivered,  \* the payloads returned by receive_message, in call order
    lastSent,   \* message id -> the time get_messages_to_send last returned it,
                \* kept until the message is acknowledged
    ackedIds,   \* the message ids listed in packets process_ack has acknowledged
    overflow_checks,  \* the build profile: are integer overflows checked
    panicked    \* a call has panicked; the channel is used no more

vars == << snd, rcv, net, acks, next_seq, sent, delivered, lastSent, ackedIds,
           overflow_checks, panicked >>

\* The ids of a list of messages, in order.
IdsOf(messages) == [ k \in 1 .. Len(messages) |-> messages[k].id ]

Range(f) == { f[k] : k \in DOMAIN f }

InitAt(cfg) ==
    /\ snd = new(0, cfg)
    /\ rcv = new(0, cfg)
    /\ net = {}
    /\ acks = {}
    /\ next_seq = 0
    /\ sent = << >>
    /\ delivered = << >>
    /\ lastSent = [ id \in 0 .. MaxSends - 1 |-> None ]
    /\ ackedIds = {}
    /\ overflow_checks = TRUE
    /\ panicked = FALSE

Init == \E cfg \in Configs : InitAt(cfg)

\* The application enqueues a payload on the sender.
SendMessage(payload) ==
    /\ ~panicked
    /\ Len(sent) < MaxSends
    /\ snd' = send_message(snd, payload)
    /\ sent' = Append(sent, payload)
    /\ UNCHANGED << rcv, net, acks, next_seq, delivered, lastSent, ackedIds,
                    overflow_checks, panicked >>

\* The transport builds the packet with sequence next_seq.
GetMessagesToSend(available_bits) ==
    /\ ~panicked
    /\ next_seq < MaxPackets
    /\ IF overflow_checks /\ get_messages_id_to_send_panics(snd, available_bits)
       THEN /\ panicked' = TRUE
            /\ UNCHANGED << snd, net, next_seq, lastSent >>
       ELSE /\ panicked' = FALSE
            /\ LET r == get_messages_to_send(snd, available_bits, next_seq)
               IN  /\ snd' = r.chan
                   /\ IF IsSome(r.out)
                      THEN /\ net' = net \cup { [ sequence |-> next_seq,
                                                  messages |-> Unwrap(r.out) ] }
                           /\ next_seq' = next_seq + 1
                           /\ lastSent' = [ id \in DOMAIN lastSent |->
                                              IF id \in Range(IdsOf(Unwrap(r.out)))
                                              THEN Some(snd.current_time)
                                              ELSE lastSent[id] ]
                      ELSE UNCHANGED << net, next_seq, lastSent >>
    /\ UNCHANGED << rcv, acks, sent, delivered, ackedIds, overflow_checks >>

\* The transport injects a logical time into the sender: any time, earlier
\* ones included.
UpdateCurrentTime(time) ==
    /\ ~panicked
    /\ snd' = update_current_time(snd, time)
    /\ UNCHANGED << rcv, net, acks, next_seq, sent, delivered, lastSent, ackedIds,
                    overflow_checks, panicked >>

\* A packet (possibly an old or repeated one) reaches the peer.
ProcessMessages(packet) ==
    /\ ~panicked
    /\ rcv' = process_messages(rcv, packet.messages)
    /\ acks' = acks \cup { packet.sequence }
    /\ UNCHANGED << snd, net, next_seq, sent, delivered, lastSent, ackedIds,
                    overflow_checks, panicked >>

\* The acknowledgement of a packet the peer has seen reaches the sender.
ProcessAck(ack) ==
    /\ ~panicked
    /\ IF overflow_checks /\ process_ack_panics(snd, ack)
       THEN \* the record is marked, its messages are removed, and the cursor
            \* is left at 65535, where the addition panicked
            /\ snd' = [ process_ack(snd, ack) EXCEPT
                           !.oldest_unacked_message_id = U16 - 1 ]
            /\ panicked' = TRUE
       ELSE /\ snd' = process_ack(snd, ack)
            /\ panicked' = FALSE
    /\ ackedIds' =
           IF snd'.packets_sent # snd.packets_sent
           THEN ackedIds \cup Range(Unwrap(SBGet(snd.packets_sent, ack)).messages_id)
           ELSE ackedIds
    /\ lastSent' = [ id \in DOMAIN lastSent |->
                       IF id \in ackedIds' THEN None ELSE lastSent[id] ]
    /\ UNCHANGED << rcv, net, acks, next_seq, sent, delivered, overflow_checks >>

\* The application dequeues from the peer.
ReceiveMessage ==
    /\ ~panicked
    /\ LET r == receive_message(rcv)
       IN  /\ rcv' = r.chan
           /\ delivered' = IF IsSome(r.out) THEN Append(delivered, Unwrap(r.out))
                           ELSE delivered
    /\ UNCHANGED << snd, net, acks, next_seq, sent, lastSent, ackedIds,
                    overflow_checks, panicked >>

Next ==
    \/ \E payload \in Payloads(Len(sent) + 1) : SendMessage(payload)
    \/ \E available_bits \in AvailChoices : GetMessagesToSend(available_bits)
    \/ \E time \in 0 .. MaxTime : UpdateCurrentTime(time)
    \/ \E packet \in net : ProcessMessages(packet)
    \/ \E ack \in acks : ProcessAck(ack)
    \/ ReceiveMessage

Spec == Init /\ [][Next]_vars

\* ------------------------------------------------------------- properties
\* The ids send_message has assigned so far (no wrap within MaxSends).
SentIds == 0 .. Len(sent) - 1

\* C1: the successive payloads returned by receive_message are the payloads
\* passed to send_message, each at most once and in id order from id 0: the
\* k-th payload returned is the payload of the k-th send_message call,
\* whatever the order and repetition of the arrivals.
C1_ExactlyOnceInOrder ==
    /\ Len(delivered) <= Len(sent)
    /\ \A k \in 1 .. Len(delivered) : delivered[k] = sent[k]
    /\ rcv.received_message_id = Len(delivered)

\* Two payloads were returned and a repeated arrival of an id already
\* dequeued sits in inbound staging.
C1_Witness ==
    /\ Len(delivered) >= 2
    /\ \E id \in SBIds(rcv.messages_received) : id < rcv.received_message_id

\* C9: oldest_unacked_message_id equals send_message_id or is the id of an
\* entry present in outbound staging.
C9_CursorInvariant ==
    \/ snd.oldest_unacked_message_id = snd.send_message_id
    \/ SBExists(snd.messages_send, snd.oldest_unacked_message_id)

\* ------------------------------------------------ the round trip of tests
\* SpecRT: the application sends N payloads first; then the transport builds
\* packets with fresh sequences, hands each to the peer and acknowledges it;
\* the peer's application dequeues once everything is acknowledged.
RTSend(payload) == net = {} /\ SendMessage(payload)
RTGet(available_bits) == Len(sent) > 0 /\ GetMessagesToSend(available_bits)
RTReceive == Len(sent) > 0 /\ ~has_messages_to_send(snd) /\ ReceiveMessage

NextRT ==
    \/ \E payload \in Payloads(Len(sent) + 1) : RTSend(payload)
    \/ \E available_bits \in AvailChoices : RTGet(available_bits)
    \/ \E time \in 0 .. MaxTime : UpdateCurrentTime(time)
    \/ \E packet \in net : ProcessMessages(packet)
    \/ \E ack \in acks : ProcessAck(ack)
    \/ RTReceive

SpecRT == Init /\ [][NextRT]_vars

\* C2: once every message is acknowledged (has_messages_to_send is false) and
\* the peer has dequeued until receive_message returns None, the peer has
\* returned all N payloads in the order of the send_message calls.
C2_FullRoundTrip ==
    ( /\ Len(sent) > 0
      /\ ~has_messages_to_send(snd)
      /\ receive_message(rcv).out = None )
    => delivered = sent

\* C3: a payload passed to send_message that the peer has not returned yet is
\* still held where it can reach the peer: in the sender's outbound staging
\* (to be sent again), in a packet of the transport, or in the peer's inbound
\* staging.  Otherwise no schedule can ever deliver it.
C3_NoPayloadLost ==
    \A id \in SentIds :
        \/ id < Len(delivered)
        \/ SBExists(snd.messages_send, id)
        \/ SBExists(rcv.messages_received, id)
        \/ \E packet \in net : id \in Range(IdsOf(packet.messages))

\* C4: has_messages_to_send is true exactly while some message passed to
\* send_message has not been removed by an acknowledgement.
C4_HasPendingTracksUnacked ==
    has_messages_to_send(snd) <=> (SentIds \ ackedIds # {})

\* C4, one direction: once the acknowledged packets contain every sent
\* message, has_messages_to_send is false.
C4_AllAckedNotPending ==
    (SentIds \subseteq ackedIds) => ~has_messages_to_send(snd)

\* C5: in every reachable state and for every packet sequence s, calling
\* process_ack(s) twice in a row leaves the channel exactly as calling it once.
C5_IdempotentAck ==
    \A s \in 0 .. MaxPackets :
        process_ack(process_ack(snd, s), s) = process_ack(snd, s)

\* An acknowledgement is about to remove messages and move the cursor, with
\* another packet still unacknowledged.
C5_Witness ==
    \E s \in 0 .. MaxPackets :
        /\ process_ack(snd, s).oldest_unacked_message_id # snd.oldest_unacked_message_id
        /\ has_messages_to_send(process_ack(snd, s))
        /\ ackedIds # {}

\* The result of get_messages_to_send in the current state.
GetOut(available_bits) == get_messages_to_send(snd, available_bits, next_seq).out
GetIds(available_bits) ==
    LET out == GetOut(available_bits)
    IN  IF IsSome(out) THEN IdsOf(Unwrap(out)) ELSE << >>

\* The cached size of a staged message.
SizeBits(id) == Unwrap(SBGet(snd.messages_send, id)).serialized_size_bits

RECURSIVE SumBits(_)
SumBits(ids) == IF ids = << >> THEN 0 ELSE SizeBits(Head(ids)) + SumBits(Tail(ids))

\* The budget of a call as the specification states it, in bits; None is
\* unbounded.
StatedBudget(available_bits) ==
    LET packet_budget == snd.config.packet_budget_bytes
    IN  IF IsSome(packet_budget)
        THEN IF IsSome(available_bits)
             THEN Some(Min(Unwrap(packet_budget) * 8, Unwrap(available_bits)))
             ELSE Some(Unwrap(packet_budget) * 8)
        ELSE available_bits

\* C6: for every get_messages_to_send call that returns a list, the sum of the
\* cached serialized_size_bits of the returned messages is at most the
\* effective budget of that call.
C6_BudgetRespected ==
    \A a \in AvailChoicesSnd :
        LET ids == GetIds(a)
        IN  ids # << >> =>
                \/ StatedBudget(a) = None
                \/ SumBits(ids) <= Unwrap(StatedBudget(a))

\* A packet has been built, and a call with 96 available bits now returns one
\* message where a call without a limit returns two.
C6_Witness ==
    /\ net # {}
    /\ Len(GetIds(Some(96))) = 1
    /\ Len(GetIds(None)) = 2

\* C7: a message returned by get_messages_to_send at time t is not returned by
\* a call made while current_time < t + message_resend_time.
C7_ResendGated ==
    \A a \in AvailChoicesSnd :
        \A id \in Range(GetIds(a)) :
            \/ lastSent[id] = None
            \/ Unwrap(lastSent[id]) + snd.config.message_resend_time <= snd.current_time

\* The clock has advanced since a staged message was returned, but not by
\* message_resend_time, and a call without a limit returns None.
C7_Witness ==
    /\ has_messages_to_send(snd)
    /\ GetOut(None) = None
    /\ \E id \in SBIds(snd.messages_send) :
           /\ IsSome(lastSent[id])
           /\ Unwrap(lastSent[id]) < snd.current_time
           /\ snd.current_time < Unwrap(lastSent[id]) + snd.config.message_resend_time

\* A message returned at time t becomes due at t + message_resend_time.
Due(id) ==
    /\ IsSome(lastSent[id])
    /\ Unwrap(lastSent[id]) + snd.config.message_resend_time <= snd.current_time

\* The call, whose result is r, returns the message and stamps its entry with
\* the current time.
ReturnedAndStamped(r, id) ==
    /\ IsSome(r.out)
    /\ id \in Range(IdsOf(Unwrap(r.out)))
    /\ Unwrap(SBGet(r.chan.messages_send, id)).last_time_sent = Some(snd.current_time)

\* C8 as stated: an unacknowledged message that is due is in the list the next
\* call returns, and that call stamps it.
C8_ResentWhenDue ==
    \A a \in AvailChoicesSnd :
        LET r == get_messages_to_send(snd, a, next_seq)
        IN  \A id \in SentIds :
                (Due(id) /\ id \notin ackedIds) => ReturnedAndStamped(r, id)

\* The ids the call selected before reaching id in its scan.
Offset(id) == (id - snd.oldest_unacked_message_id) % U16
SelectedBefore(ids, id) == SelectSeq(ids, LAMBDA other : Offset(other) < Offset(id))

\* C8 as amended: a due message still in outbound staging is returned and
\* stamped by the next call unless max_message_per_packet messages were
\* selected before it or its size exceeds the budget left at its turn.
C8_ResentWhenDueAndFits ==
    \A a \in AvailChoicesSnd :
        LET r == get_messages_to_send(snd, a, next_seq)
            ids == IF IsSome(r.out) THEN IdsOf(Unwrap(r.out)) ELSE << >>
        IN  \A id \in SentIds :
                (Due(id) /\ SBExists(snd.messages_send, id)) =>
                    \/ ReturnedAndStamped(r, id)
                    \/ Len(SelectedBefore(ids, id)) = snd.config.max_message_per_packet
                    \/ /\ IsSome(StatedBudget(a))
                       /\ SizeBits(id) >
                              Unwrap(StatedBudget(a)) - SumBits(SelectedBefore(ids, id))

\* A message has been returned twice, the second time message_resend_time or
\* more after the clock started, and its entry carries the current time.
C8_Witness ==
    \E id \in SBIds(snd.messages_send) :
        /\ snd.current_time >= snd.config.message_resend_time
        /\ lastSent[id] = Some(snd.current_time)
        /\ Unwrap(SBGet(snd.messages_send, id)).last_time_sent = Some(snd.current_time)
        /\ Cardinality({ packet \in net : id \in Range(IdsOf(packet.messages)) }) >= 2

\* C10: oldest_unacked_message_id changes only in process_ack; it moves
\* forward, over ids that have no entry in outbound staging, never past
\* send_message_id, and it stops at the first id that still has an entry.
C10_CursorMonotonic ==
    [][ LET old == snd.oldest_unacked_message_id
            cur == snd'.oldest_unacked_message_id
            step == (cur - old) % U16
        IN  /\ cur # old =>
                /\ \E ack \in 0 .. MaxPackets : ProcessAck(ack)
                /\ step <= (snd.send_message_id - old) % U16
                /\ \A j \in 0 .. step - 1 :
                       ~SBExists(snd'.messages_send, (old + j) % U16)
            /\ (\E ack \in 0 .. MaxPackets : ProcessAck(ack)) /\ snd' # snd =>
                \/ cur = snd'.send_message_id
                \/ SBExists(snd'.messages_send, cur)
      ]_vars

\* The cursor has advanced and rests on a pending message while a higher id
\* has already been acknowledged.
C10_Witness ==
    /\ snd.oldest_unacked_message_id > 0
    /\ SBExists(snd.messages_send, snd.oldest_unacked_message_id)
    /\ \E id \in ackedIds : id > snd.oldest_unacked_message_id

\* ------------------------------------------------------- the sender alone
\* SpecSnd: one channel used for sending, driven through its whole interface
\* by an arbitrary transport: any available_bits, and process_ack for any
\* packet sequence, whether a record is stored under it or not.
Reset ==
    /\ ~panicked
    /\ snd' = reset(snd)
    /\ UNCHANGED << rcv, net, acks, next_seq, sent, delivered, lastSent, ackedIds,
                    overflow_checks, panicked >>

InitSnd == \E cfg \in ConfigsSnd : InitAt(cfg)

NextSnd ==
    \/ \E payload \in Payloads(Len(sent) + 1) : SendMessage(payload)
    \/ \E available_bits \in AvailChoicesSnd : GetMessagesToSend(available_bits)
    \/ \E time \in 0 .. MaxTime : UpdateCurrentTime(time)
    \/ \E ack \in 0 .. MaxPackets : ProcessAck(ack)
    \/ Reset

SpecSnd == InitSnd /\ [][NextSnd]_vars

\* The last_time_sent of a staged message.
LastTimeSent(c, id) == Unwrap(SBGet(c.messages_send, id)).last_time_sent

\* C11: get_messages_to_send never returns an empty list.  When it returns
\* None it stores no packet record and changes no last_time_sent (the channel
\* is left as it was).  When it returns a list, the record stored under the
\* given sequence lists exactly the returned ids, in the same order, with
\* acked = false, and every returned entry's last_time_sent is current_time.
C11_ListOrNothing ==
    \A a \in AvailChoicesSnd : \A sequence \in 0 .. MaxPackets :
        LET r == get_messages_to_send(snd, a, sequence)
        IN  /\ r.out # Some(<< >>)
            /\ r.out = None => r.chan = snd
            /\ IsSome(r.out) =>
                   /\ SBGet(r.chan.packets_sent, sequence)
                          = Some(PacketSent(IdsOf(Unwrap(r.out))))
                   /\ \A id \in Range(IdsOf(Unwrap(r.out))) :
                          LastTimeSent(r.chan, id) = Some(snd.current_time)

\* A packet of two messages was built, its record is stored unacknowledged
\* with both ids in order and both entries stamped; a further call returns
\* None although messages are pending.
C11_Witness ==
    /\ has_messages_to_send(snd)
    /\ get_messages_to_send(snd, None, next_seq).out = None
    /\ \E packet \in net :
           /\ Len(packet.messages) = 2
           /\ SBGet(snd.packets_sent, packet.sequence)
                  = Some(PacketSent(IdsOf(packet.messages)))
           /\ \A id \in Range(IdsOf(packet.messages)) :
                  LastTimeSent(snd, id) = Some(snd.current_time)

\* C14: after reset() the sent and received totals and the send, receive and
\* oldest-unacked cursors are 0, whatever the state before the call.
C14_ResetZeroesCounters ==
    LET c == reset(snd)
    IN  /\ c.num_messages_sent = 0
        /\ c.num_messages_received = 0
        /\ c.send_message_id = 0
        /\ c.received_message_id = 0
        /\ c.oldest_unacked_message_id = 0

\* The packet sequences process_ack is tried with: those the transport may
\* have used, the next one, and the last 16-bit value.
AckChoices == 0 .. MaxPackets \cup { U16 - 1 }

\* C15: process_ack(s) for a sequence s that has no record, because no packet
\* was built with it or because a later sequence took its slot, changes
\* nothing: outbound staging, the records, oldest_unacked_message_id and
\* has_messages_to_send are as before.
C15_UnknownAckNoOp ==
    \A s \in AckChoices :
        ~SBExists(snd.packets_sent, s) =>
            LET c == process_ack(snd, s)
            IN  /\ c.messages_send = snd.messages_send
                /\ c.packets_sent = snd.packets_sent
                /\ c.oldest_unacked_message_id = snd.oldest_unacked_message_id
                /\ has_messages_to_send(c) = has_messages_to_send(snd)
                /\ c = snd

\* A packet's record was overwritten by a later sequence that lives in the
\* same slot and is not acknowledged, while a message of the packet is still
\* staged.
C15_Witness ==
    \E packet \in net :
        /\ ~SBExists(snd.packets_sent, packet.sequence)
        /\ \E id \in Range(IdsOf(packet.messages)) : SBExists(snd.messages_send, id)
        /\ \E later \in SBIds(snd.packets_sent) :
               /\ SBIndex(snd.packets_sent, later) = SBIndex(snd.packets_sent, packet.sequence)
               /\ ~Unwrap(SBGet(snd.packets_sent, later)).acked

\* The ids of the scan window, and the staged entries that are due in it.
Window == { (snd.oldest_unacked_message_id + i) % U16 : i \in 0 .. message_limit(snd) - 1 }
Eligible(id) ==
    /\ SBExists(snd.messages_send, id)
    /\ ShouldSend(snd, Unwrap(SBGet(snd.messages_send, id)))

\* Does the entry fit what the stated budget leaves once the ids selected
\* before it are paid for.
FitsAtTurn(a, ids, id) ==
    \/ StatedBudget(a) = None
    \/ SizeBits(id) <= Unwrap(StatedBudget(a)) - SumBits(SelectedBefore(ids, id))

\* Scenario C: two messages of the size of the packet budget are staged and
\* none was sent; the first call returns the first only and, once its packet
\* is acknowledged, the next call returns the second only.
ScenarioC ==
    ( /\ snd.config.packet_budget_bytes = Some(11)
      /\ snd.oldest_unacked_message_id = 0
      /\ snd.send_message_id = 2
      /\ \A id \in { 0, 1 } :
             /\ SBExists(snd.messages_send, id)
             /\ SizeBits(id) = 88
             /\ LastTimeSent(snd, id) = None )
    => LET first == get_messages_to_send(snd, None, 0)
           second == get_messages_to_send(process_ack(first.chan, 0), None, 1)
       IN  /\ IsSome(first.out) /\ IdsOf(Unwrap(first.out)) = << 0 >>
           /\ IsSome(second.out) /\ IdsOf(Unwrap(second.out)) = << 1 >>

\* C16: in one get_messages_to_send call a due entry that does not fit the
\* budget left at its turn is left out, its last_time_sent unchanged, and the
\* scan goes on: every due entry of the window that fits the budget left at
\* its turn is selected unless max_message_per_packet ids were selected
\* before it.  With a budget of exactly one message and two staged messages
\* the first call returns the first only and, after its acknowledgement, the
\* next call returns the second only.
C16_OversizeSkipped ==
    /\ ScenarioC
    /\ \A a \in AvailChoicesSnd :
           LET r == get_messages_to_send(snd, a, next_seq)
               ids == IF IsSome(r.out) THEN IdsOf(Unwrap(r.out)) ELSE << >>
           IN  \A id \in Window :
                   Eligible(id) =>
                       IF FitsAtTurn(a, ids, id)
                       THEN \/ id \in Range(ids)
                            \/ Len(SelectedBefore(ids, id))
                                   = snd.config.max_message_per_packet
                       ELSE /\ id \notin Range(ids)
                            /\ LastTimeSent(r.chan, id) = LastTimeSent(snd, id)

\* A packet was built from ids 0 and 2: id 1, staged and never sent, did not
\* fit what id 0 had left of the budget, and id 2 after it did.
C16_Witness ==
    /\ \E packet \in net : IdsOf(packet.messages) = << 0, 2 >>
    /\ SBExists(snd.messages_send, 1)
    /\ LastTimeSent(snd, 1) = None
    /\ SizeBits(1) > SizeBits(2)

\* C17: every list get_messages_to_send returns has at most
\* max_message_per_packet messages, holds no id twice, is ordered by
\* increasing offset from oldest_unacked_message_id, and every id of it lies
\* among the min(message_send_queue_size, message_receive_queue_size)
\* consecutive ids that start at oldest_unacked_message_id.
C17_PacketShape ==
    \A a \in AvailChoicesSnd :
        LET out == get_messages_to_send(snd, a, next_seq).out
            ids == IF IsSome(out) THEN IdsOf(Unwrap(out)) ELSE << >>
        IN  /\ Len(ids) <= snd.config.max_message_per_packet
            /\ \A j \in 1 .. Len(ids) : \A k \in 1 .. Len(ids) :
                   j < k => /\ ids[j] # ids[k]
                            /\ Offset(ids[j]) < Offset(ids[k])
            /\ \A k \in 1 .. Len(ids) :
                   Offset(ids[k]) < Min(snd.config.message_send_queue_size,
                                        snd.config.message_receive_queue_size)

\* After a packet was built, a call returns max_message_per_packet messages
\* and leaves out a due entry of the window that the budget would admit.
C17_Witness ==
    /\ net # {}
    /\ LET out == get_messages_to_send(snd, None, next_seq).out
           ids == IF IsSome(out) THEN IdsOf(Unwrap(out)) ELSE << >>
       IN  /\ Len(ids) = snd.config.max_message_per_packet
           /\ Len(ids) >= 2
           /\ \E id \in Window :
                  Eligible(id) /\ FitsAtTurn(None, ids, id) /\ id \notin Range(ids)

\* C19: process_ack(s) on an unacknowledged record marks it acknowledged and
\* leaves none of its message ids in outbound staging; a record that is
\* acknowledged never becomes unacknowledged again; and a message id listed
\* in an acknowledged record stays out of outbound staging and is returned
\* by no later get_messages_to_send call, however far the clock advances (no
\* message id is assigned twice within MaxSends sends).
C19_AckedIsTerminal ==
    /\ [] ( /\ \A s \in AckChoices :
                  LET record == SBGet(snd.packets_sent, s)
                      c == process_ack(snd, s)
                  IN  (IsSome(record) /\ ~Unwrap(record).acked) =>
                          /\ Unwrap(SBGet(c.packets_sent, s)).acked
                          /\ \A id \in Range(Unwrap(record).messages_id) :
                                 ~SBExists(c.messages_send, id)
            /\ \A id \in ackedIds :
                  /\ ~SBExists(snd.messages_send, id)
                  /\ \A a \in AvailChoicesSnd :
                         LET out == get_messages_to_send(snd, a, next_seq).out
                         IN  IsSome(out) => id \notin Range(IdsOf(Unwrap(out))) )
    /\ [][ \A s \in AckChoices :
              ( /\ SBExists(snd.packets_sent, s)
                /\ Unwrap(SBGet(snd.packets_sent, s)).acked
                /\ SBExists(snd'.packets_sent, s) )
              => Unwrap(SBGet(snd'.packets_sent, s)).acked ]_vars

\* A packet carried two messages; one of them was sent again in a later
\* packet, which was acknowledged.  The other is now due and a call returns
\* it, alone: the acknowledged one is gone for good.
C19_Witness ==
    \E packet \in net : \E id \in ackedIds : \E other \in SBIds(snd.messages_send) :
        /\ id \in Range(IdsOf(packet.messages))
        /\ other \in Range(IdsOf(packet.messages))
        /\ Due(other)
        /\ LET out == get_messages_to_send(snd, None, next_seq).out
           IN  IsSome(out) /\ IdsOf(Unwrap(out)) = << other >>

\* ----------------------------------------------------- the receiver alone
\* SpecRcv: one channel used for receiving.  The transport hands it arbitrary
\* lists of up to two messages, with ids 0..MaxId in any order and either of
\* two payloads per id, so that two arrivals of an id may differ.
ArrivingMessages == { Message(id, payload) : id \in 0 .. MaxId, payload \in Payloads(1) }
Arrivals ==
    { << m >> : m \in ArrivingMessages }
        \cup { << m1, m2 >> : m1 \in ArrivingMessages, m2 \in ArrivingMessages }

Arrive(messages) ==
    /\ ~panicked
    /\ rcv' = process_messages(rcv, messages)
    /\ UNCHANGED << snd, net, acks, next_seq, sent, delivered, lastSent, ackedIds,
                    overflow_checks, panicked >>

NextRcv ==
    \/ \E messages \in Arrivals : Arrive(messages)
    \/ ReceiveMessage

SpecRcv == Init /\ [][NextRcv]_vars

\* C12: while no entry with id exactly received_message_id is buffered,
\* receive_message returns None and leaves the channel as it was, whatever
\* higher ids are buffered; received_message_id changes only by exactly one,
\* and only in a step that returns the payload of the entry whose id it was.
C12_StrictReceiveOrder ==
    /\ [] ( LET r == receive_message(rcv)
            IN  ~SBExists(rcv.messages_received, rcv.received_message_id)
                    => r.out = None /\ r.chan = rcv )
    /\ [][ rcv'.received_message_id # rcv.received_message_id =>
              LET entry == SBGet(rcv.messages_received, rcv.received_message_id)
              IN  /\ rcv'.received_message_id = (rcv.received_message_id + 1) % U16
                  /\ IsSome(entry)
                  /\ Unwrap(entry).id = rcv.received_message_id
                  /\ delivered' = Append(delivered, Unwrap(entry).payload)
                  /\ ~SBExists(rcv'.messages_received, rcv.received_message_id)
         ]_vars

\* C18: a message that arrives with an id that already has an entry in
\* inbound staging leaves the existing entry, its payload and the whole of
\* inbound staging as they were; and processing a list twice in a row leaves
\* the state that processing it once leaves.
C18_DuplicatesKept ==
    /\ \A m \in ArrivingMessages :
           SBExists(rcv.messages_received, m.id) => process_messages(rcv, << m >>) = rcv
    /\ \A messages \in Arrivals :
           LET once == process_messages(rcv, messages)
           IN  process_messages(once, messages) = once

\* An id is buffered with one payload; a list that carries the same id with
\* the other payload and a new id buffers the new id and keeps the entry.
C18_Witness ==
    \E messages \in Arrivals :
        /\ Len(messages) = 2
        /\ SBExists(rcv.messages_received, messages[1].id)
        /\ Unwrap(SBGet(rcv.messages_received, messages[1].id)).payload
               # messages[1].payload
        /\ LET once == process_messages(rcv, messages)
           IN  /\ SBExists(once.messages_received, messages[2].id)
               /\ ~SBExists(rcv.messages_received, messages[2].id)
               /\ SBGet(once.messages_received, messages[1].id)
                      = SBGet(rcv.messages_received, messages[1].id)

\* A payload was returned, the next id is missing and receive_message returns
\* None while a higher id waits in inbound staging.
C12_Witness ==
    /\ Len(delivered) >= 1
    /\ receive_message(rcv).out = None
    /\ \E id \in SBIds(rcv.messages_received) : id > rcv.received_message_id

\* ------------------------------------------- the channels at the 16-bit wrap
\* SpecWrap: the behaviours of Spec continued from a later state of the
\* connection, one configuration with an overflowing packet budget added.
\* WrapStart messages have been sent, acknowledged and dequeued, the
\* transport has used all 65536 packet sequences once (a few messages were
\* sent twice) and holds no packet, and the next message id is
\* WrapStart = 65534.  The build profile is either one, except that the
\* build with overflow checks never gets there with the overflowing budget
\* (its first get_messages_to_send with a message pending panics, so nothing
\* is ever acknowledged): that combination starts from construction.
WrapStart == U16 - 2

\* A buffer of acknowledged records for the last packet sequences, each
\* listing one of the last message ids.
LastPacketsSent(size) ==
    [ sequence |-> 0,
      slots |-> [ i \in 0 .. size - 1 |->
                    LET q == CHOOSE q \in U16 - size .. U16 - 1 : q % size = i
                    IN  Some([ id |-> q,
                               value |-> [ messages_id |-> << WrapStart - (U16 - q) >>,
                                           acked |-> TRUE ] ]) ] ]

SenderAtWrap(cfg) ==
    [ new(0, cfg) EXCEPT
        !.packets_sent = LastPacketsSent(cfg.sent_packet_buffer_size),
        !.messages_send.sequence = WrapStart,
        !.send_message_id = WrapStart,
        !.oldest_unacked_message_id = WrapStart,
        !.num_messages_sent = WrapStart ]

ReceiverAtWrap(cfg) ==
    [ new(0, cfg) EXCEPT
        !.messages_received.sequence = WrapStart,
        !.received_message_id = WrapStart,
        !.num_messages_received = WrapStart ]

InitWrap ==
    \/ \E cfg \in ConfigsWrap :
           /\ snd = SenderAtWrap(cfg)
           /\ rcv = ReceiverAtWrap(cfg)
           /\ net = {}
           /\ acks = {}
           /\ next_seq = 0
           /\ sent = << >>
           /\ delivered = << >>
           /\ lastSent = [ id \in 0 .. MaxSends - 1 |-> None ]
           /\ ackedIds = {}
           /\ overflow_checks \in BOOLEAN
           /\ EffectiveBudgetPanics(snd) => ~overflow_checks
           /\ panicked = FALSE
    \/ InitAt(CfgHuge)

SpecWrap == InitWrap /\ [][Next]_vars

\* C13: send_message_id, received_message_id and oldest_unacked_message_id
\* wrap modulo 65536 without failure: no call panics, in particular not the
\* scan of get_messages_to_send nor the cursor advance of process_ack when
\* oldest_unacked_message_id is close to 65535.  (A panic of the budget
\* multiplication, which a packet budget of 2^29 bytes or more causes, is
\* not a failure of the ids and is left aside.)
C13_WrapsWithoutFailure == panicked => EffectiveBudgetPanics(snd)

\* C13, the build without overflow checks: the ids wrap to 0 and the payloads
\* are still returned in the order of the send_message calls.
C13_WrapsUnchecked ==
    ~overflow_checks =>
        /\ ~panicked
        /\ snd.send_message_id = (WrapStart + Len(sent)) % U16
        /\ rcv.received_message_id = (WrapStart + Len(delivered)) % U16
        /\ Len(delivered) <= Len(sent)
        /\ \A k \in 1 .. Len(delivered) : delivered[k] = sent[k]

\* The build without overflow checks has carried all three ids over the wrap.
C13_WrappedUnchecked ==
    /\ ~overflow_checks
    /\ snd.send_message_id < WrapStart
    /\ snd.oldest_unacked_message_id < WrapStart
    /\ rcv.received_message_id < WrapStart

\* The counters of one channel agree with its cursors, and one call of
\* send_message or receive_message on it counts as the claim says.
CountersAgree(c) ==
    /\ c.send_message_id = c.num_messages_sent % U16
    /\ c.received_message_id = c.num_messages_received % U16
    /\ \A payload \in Payloads(1) :
           LET d == send_message(c, payload)
           IN  /\ d.num_messages_sent = c.num_messages_sent + 1
               /\ d.messages_received = c.messages_received
               /\ d.received_message_id = c.received_message_id
               /\ d.num_messages_received = c.num_messages_received
    /\ LET r == receive_message(c)
       IN  r.chan.num_messages_received
               = c.num_messages_received + (IF IsSome(r.out) THEN 1 ELSE 0)

\* C20: in every reachable state send_message_id equals num_messages_sent
\* modulo 65536 and received_message_id equals num_messages_received modulo
\* 65536; send_message raises num_messages_sent by exactly one and touches
\* neither inbound staging nor received_message_id; num_messages_received is
\* raised, by exactly one, in exactly the receive_message calls that return a
\* payload.
C20_CountersAgree ==
    /\ [] ( CountersAgree(snd) /\ CountersAgree(rcv) )
    /\ [][ /\ snd'.num_messages_sent # snd.num_messages_sent =>
                /\ snd'.num_messages_sent = snd.num_messages_sent + 1
                /\ Len(sent') = Len(sent) + 1
           /\ rcv'.num_messages_received # rcv.num_messages_received =>
                /\ rcv'.num_messages_received = rcv.num_messages_received + 1
                /\ Len(delivered') = Len(delivered) + 1
           /\ Len(delivered') # Len(delivered) =>
                rcv'.num_messages_received = rcv.num_messages_received + 1
         ]_vars

\* Both totals have passed 65535: the send cursor and the receive cursor have
\* wrapped to the low ids while the totals count on.
C20_Witness ==
    /\ snd.num_messages_sent > U16
    /\ snd.send_message_id = snd.num_messages_sent - U16
    /\ rcv.num_messages_received > U16
    /\ rcv.received_message_id = rcv.num_messages_received - U16

====
